---- MODULE Spec2Model ----
(***************************************************************************)
(* nunjucks-loader: dependency resolution and asset rewriting of a         *)
(* precompiled template (src/precompile/with-dependencies.js and the asset *)
(* rewriter).                                                              *)
(*                                                                         *)
(* Text is modelled as a sequence of lexical tokens:                       *)
(*   Quote(v)  the text "v" (a double-quoted string literal),              *)
(*   Bare(v)   the text v as it stands,                                    *)
(*   Plus      the text ` + ` (the separator of a concatenation).          *)
(***************************************************************************)
EXTENDS Naturals, Sequences, FiniteSets, TLC

VARIABLES
    addNode,      \* getAddNodeValue: the node under evaluation
    addResult,    \* getAddNodeValue: its outcome (a value or a thrown TypeError)
    nodes,        \* the parsed template: its nodes in document order
    depsOut,      \* getDependencies: the extracted template names
    rwState,      \* the rewrite: "start", "done" or "thrown"
    rwText,       \* the rewrite: the precompiled text
    rwAssets,     \* the rewrite: the asset entries [uuid, path]
    rwLog,        \* the rewrite: one record per replaceAssetPath call
    rwOut,        \* the rewrite: the rewritten text
    pc,           \* withDependencies: where the call stands
    fs,           \* the paths that exist in the file system
    ext,          \* the promise of getAddonsMeta(extensions)
    flt,          \* the promise of getAddonsMeta(filters)
    addonsAll,    \* Promise.all of the two addon promises
    parseCount,   \* the number of calls of getNodes
    parseState,   \* "none", "ok" or "error"
    pre,          \* the promise of precompileToLocalVar
    depRes,       \* getDependenciesImports: one resolution per template name
    depAll,       \* getDependenciesImports: Promise.all of the resolutions
    join,         \* Promise.all of pre and depAll
    chain,        \* the value passed along the then chain
    assetRes,     \* getAssets: one resolution per asset path
    assetAll,     \* getAssets: Promise.all of the resolutions
    result,       \* the promise withDependencies returned
    rsPaths,      \* getFirstExistedPath: the candidates, in order
    rsChecks,     \* getFirstExistedPath: the existence check of each
    rsResult      \* getFirstExistedPath: the promise it returned

addVars == <<addNode, addResult>>
extractVars == <<depsOut>>
rwVars == <<rwState, rwText, rwAssets, rwLog, rwOut>>
runVars == <<pc, ext, flt, addonsAll, parseCount, parseState, pre,
            depRes, depAll, join, chain, assetRes, assetAll, result>>
vars == <<addNode, addResult, nodes, depsOut, rwState, rwText, rwAssets,
          rwLog, rwOut, pc, fs, ext, flt, addonsAll, parseCount, parseState,
          pre, depRes, depAll, join, chain, assetRes, assetAll, result,
          rsPaths, rsChecks, rsResult>>
rsVars == <<rsPaths, rsChecks, rsResult>>

None == [state |-> "none"]

(***************************************************************************)
(* Text tokens                                                             *)
(***************************************************************************)
Quote(v) == [t |-> "quoted", v |-> v]
Bare(v) == [t |-> "bare", v |-> v]
Plus == [t |-> "plus", v |-> " + "]

\* The characters a token stands for.
TokenText(tok) ==
    IF tok.t = "quoted" THEN "\"" \o tok.v \o "\"" ELSE tok.v

RECURSIVE Text(_)
Text(toks) ==
    IF toks = <<>> THEN "" ELSE TokenText(Head(toks)) \o Text(Tail(toks))

(***************************************************************************)
(* Expression nodes of the parsed tree (nunjucks.nodes)                    *)
(***************************************************************************)
Literal(v) == [type |-> "Literal", value |-> v]
Symbol(v) == [type |-> "Symbol", value |-> v]
Add(l, r) == [type |-> "Add", left |-> l, right |-> r]
\* Any other expression node (a lookup, a call, a `~` concatenation, ...).
OtherExpr == [type |-> "Other"]

MaxDepth == 2

Leaves == {Literal("img/"), Literal(".png"), Symbol("name"), OtherExpr}

RECURSIVE Exprs(_)
Exprs(d) ==
    IF d = 0 THEN Leaves
    ELSE Leaves \cup {Add(l, r) : l \in Exprs(d - 1), r \in Exprs(d - 1)}

AddNodes == {e \in Exprs(MaxDepth) : e.type = "Add"}

(***************************************************************************)
(* getAddNodeValue                                                         *)
(***************************************************************************)
Value(v) == [ok |-> TRUE, value |-> v]
Thrown(e) == [ok |-> FALSE, error |-> e]

\* Array.prototype.join(' + ') of the two mapped operands.
JoinPlus(l, r) == l \o <<Plus>> \o r

RECURSIVE getAddNodeValue(_)
\* Mutant: the literal is emitted without its double quotes.
AddOperandValueUnquoted(node) ==
    IF node.type = "Add" THEN getAddNodeValue(node)
    ELSE IF node.type = "Literal" THEN Value(<<Bare(node.value)>>)
    ELSE IF node.type = "Symbol" THEN Value(<<Bare(node.value)>>)
    ELSE Thrown("TypeError")

AddOperandValue(node) ==
    IF node.type = "Add" THEN getAddNodeValue(node)
    ELSE IF node.type = "Literal" THEN Value(<<Quote(node.value)>>)
    ELSE IF node.type = "Symbol" THEN Value(<<Bare(node.value)>>)
    ELSE Thrown("TypeError")

getAddNodeValue(node) ==
    IF node.type # "Add" THEN Thrown("TypeError")
    ELSE LET l == AddOperandValue(node.left)
         IN  IF ~l.ok THEN l
             ELSE LET r == AddOperandValue(node.right)
                  IN  IF ~r.ok THEN r
                      ELSE Value(JoinPlus(l.value, r.value))

(***************************************************************************)
(* getDependencies: the names of the templates a template refers to        *)
(***************************************************************************)
Directive(kind, name) == [type |-> kind, template |-> Literal(name)]
\* A node that is no directive (template data, an output, ...).
OtherNode == [type |-> "Output"]

DirectiveKinds == {"Extends", "Include", "Import", "FromImport"}
TemplateNames == {"a", "b"}

\* nodes.findAll(type): the nodes of that type, in document order.
findAll(ns, type) == SelectSeq(ns, LAMBDA n : n.type = type)

TemplateValues(ns) == [i \in 1..Len(ns) |-> ns[i].template.value]

\* Mutant: import directives are collected before include directives.
getDependenciesImportFirst(ns) ==
    TemplateValues(findAll(ns, "Extends") \o findAll(ns, "Import")
                   \o findAll(ns, "Include") \o findAll(ns, "FromImport"))

getDependencies(ns) ==
    LET extendsNodes == findAll(ns, "Extends")
        includeNodes == findAll(ns, "Include")
        importNodes == findAll(ns, "Import")
        fromImportNodes == findAll(ns, "FromImport")
    IN  TemplateValues(extendsNodes \o includeNodes \o importNodes
                       \o fromImportNodes)

(***************************************************************************)
(* getGlobalFnValue, isUnique and the asset values of a template           *)
(***************************************************************************)
\* A function call: node.name.value is the callee, node.args.children the
\* arguments.
FunCall(name, args) ==
    [type |-> "FunCall", name |-> Symbol(name), args |-> args]

\* The value of a function that returns nothing.
Undefined == [ok |-> TRUE, undefined |-> TRUE]
IsDefined(r) == "value" \in DOMAIN r

\* node.value of an expression node: nodes that are no Value have none.
NodeValue(node) ==
    IF node.type \in {"Literal", "Symbol"} THEN Value(<<Bare(node.value)>>)
    ELSE Undefined

\* Mutant: the callee's name is not looked at.
getGlobalFnValueAnyCallee(node) ==
    IF node.args = <<>> THEN Thrown("TypeError")
    ELSE IF node.args[1].type = "Add" THEN getAddNodeValue(node.args[1])
    ELSE NodeValue(node.args[1])

getGlobalFnValue(node) ==
    IF node.name.value # "static" THEN Undefined
    \* `asset.value` of a call without arguments reads a property of undefined
    ELSE IF node.args = <<>> THEN Thrown("TypeError")
    ELSE IF node.args[1].type = "Add" THEN getAddNodeValue(node.args[1])
    ELSE NodeValue(node.args[1])

\* list.indexOf(item): the first index holding item (the item is in the list).
indexOf(list, item) ==
    CHOOSE i \in 1..Len(list) :
        list[i] = item /\ \A j \in 1..(i - 1) : list[j] # item

\* Mutant: every item counts as unique.
isUniqueAlways(item, i, list) == TRUE

isUnique(item, i, list) == indexOf(list, item) = i

\* Array.prototype.filter with the (item, index, list) predicate isUnique.
RECURSIVE FilterUnique(_, _)
FilterUnique(list, i) ==
    IF i > Len(list) THEN <<>>
    ELSE (IF isUnique(list[i], i, list) THEN <<list[i]>> ELSE <<>>)
             \o FilterUnique(list, i + 1)

\* getValue mapped over the nodes, left to right; the first throw ends it.
RECURSIVE MapValues(_)
MapValues(ns) ==
    IF ns = <<>> THEN Value(<<>>)
    ELSE LET v == getGlobalFnValue(Head(ns))
         IN  IF ~v.ok THEN v
             ELSE LET rest == MapValues(Tail(ns))
                  IN  IF ~rest.ok THEN rest
                      ELSE Value(<<v>> \o rest.value)

\* getNodesValues(nodes, FunCall, getGlobalFnValue): the values the calls
\* yield, calls that yield none left out.
getNodesValues(ns) ==
    LET mapped == MapValues(findAll(ns, "FunCall"))
    IN  IF ~mapped.ok THEN mapped
        ELSE LET defined == SelectSeq(mapped.value, IsDefined)
             IN  Value([i \in 1..Len(defined) |-> defined[i].value])

\* The first statement of getAssets: the distinct asset paths of a template.
AssetPaths(ns) ==
    LET values == getNodesValues(ns)
    IN  IF ~values.ok THEN values ELSE Value(FilterUnique(values.value, 1))

(***************************************************************************)
(* The asset rewriter: getAssetReplaceRegExp, replaceAssetPath,            *)
(* replaceAssets                                                           *)
(***************************************************************************)
\* ` += `: an operator of the precompiled code that holds a `+` character.
PlusAssign == [t |-> "op", v |-> " += "]
Comma == Bare(",")
Lookup(uuid) == Bare("_templateAssets['" \o uuid \o "']")

\* Regular expression source: an element matches one token literally, or is
\* the group `([^+]+)`.
Lit(tok) == [re |-> "lit", tok |-> tok]
Group == [re |-> "group", tok |-> Bare("([^+]+)")]

\* toRegExpSource: the text with its special characters escaped, so that
\* every token matches itself (Plus becomes ` \+ `).
toRegExpSource(text) == [i \in 1..Len(text) |-> Lit(text[i])]

\* isDynamicPath: the path is a concatenation.
isDynamicPath(path) == \E i \in 1..Len(path) : path[i] = Plus

\* String.prototype.split: the parts between the occurrences of sep.
RECURSIVE Split(_, _, _)
Split(seq, sep, part) ==
    IF seq = <<>> THEN <<part>>
    ELSE IF Head(seq) = sep THEN <<part>> \o Split(Tail(seq), sep, <<>>)
    ELSE Split(Tail(seq), sep, Append(part, Head(seq)))

\* Array.prototype.join: the parts with sep between neighbours.
RECURSIVE Join(_, _)
Join(parts, sep) ==
    IF parts = <<>> THEN <<>>
    ELSE IF Len(parts) = 1 THEN parts[1]
    ELSE parts[1] \o sep \o Join(Tail(parts), sep)

\* getArgs: the variable fragments of a dynamic path; a static path has none.
getArgs(path) ==
    IF isDynamicPath(path)
    THEN SelectSeq(Split(path, Plus, <<>>),
                   LAMBDA part : part = <<>> \/ part[1].t # "quoted")
    ELSE <<>>

\* `"${path}"`
QuoteText(text) ==
    IF Len(text) = 1 /\ text[1].t = "bare" THEN <<Quote(text[1].v)>>
    ELSE <<Bare("\"")>> \o text \o <<Bare("\"")>>

\* part.startsWith('"')
StartsWithQuote(part) == part # <<>> /\ part[1].tok.t = "quoted"

\* Mutant: the quoted parts become groups and the variable parts stay.
getAssetReplaceRegExpSwapped(path) ==
    IF isDynamicPath(path)
    THEN LET parts == Split(toRegExpSource(path), Lit(Plus), <<>>)
         IN  Join([i \in 1..Len(parts) |->
                      IF StartsWithQuote(parts[i]) THEN <<Group>>
                      ELSE parts[i]],
                  <<Lit(Plus)>>)
    ELSE toRegExpSource(QuoteText(path))

getAssetReplaceRegExp(path) ==
    IF isDynamicPath(path)
    THEN LET parts == Split(toRegExpSource(path), Lit(Plus), <<>>)
         IN  Join([i \in 1..Len(parts) |->
                      IF ~StartsWithQuote(parts[i]) THEN <<Group>>
                      ELSE parts[i]],
                  <<Lit(Plus)>>)
    ELSE toRegExpSource(QuoteText(path))

(***************************************************************************)
(* String.prototype.replace with a global regular expression               *)
(***************************************************************************)
NoMatch == [ok |-> FALSE]
HasPlusChar(tok) == tok.t \in {"plus", "op"}

\* The length of the run of tokens without a `+` that starts at pos.
RECURSIVE Run(_, _)
Run(text, pos) ==
    IF pos > Len(text) \/ HasPlusChar(text[pos]) THEN 0
    ELSE 1 + Run(text, pos + 1)

\* The match of pat[k..] at pos: a group is greedy and gives back what the
\* rest of the pattern needs.
RECURSIVE MatchFrom(_, _, _, _, _)
RECURSIVE TryGroup(_, _, _, _, _, _)
MatchFrom(text, pos, pat, k, caps) ==
    IF k > Len(pat) THEN [ok |-> TRUE, end |-> pos, caps |-> caps]
    ELSE IF pat[k].re = "lit"
    THEN IF pos <= Len(text) /\ text[pos] = pat[k].tok
         THEN MatchFrom(text, pos + 1, pat, k + 1, caps)
         ELSE NoMatch
    ELSE TryGroup(text, pos, pat, k, caps, Run(text, pos))

TryGroup(text, pos, pat, k, caps, n) ==
    IF n = 0 THEN NoMatch
    ELSE LET m == MatchFrom(text, pos + n, pat, k + 1,
                            Append(caps, SubSeq(text, pos, pos + n - 1)))
         IN  IF m.ok THEN m ELSE TryGroup(text, pos, pat, k, caps, n - 1)

\* The matches of the global pattern, left to right, none overlapping:
\* [start, end) and the captures of each.
RECURSIVE Matches(_, _, _)
Matches(text, pos, pat) ==
    IF pos > Len(text) THEN <<>>
    ELSE LET m == MatchFrom(text, pos, pat, 1, <<>>)
         IN  IF m.ok
             THEN <<[start |-> pos, end |-> m.end, caps |-> m.caps]>>
                      \o Matches(text, m.end, pat)
             ELSE Matches(text, pos + 1, pat)

\* The arguments the replacer gets after the match: the captures, the
\* offset of the match and the whole text.
ReplacerArgs(text, m) ==
    m.caps \o <<<<Bare(ToString(m.start - 1))>>, text>>

\* args.slice(0, n)
Slice0(args, n) == SubSeq(args, 1, IF n < Len(args) THEN n ELSE Len(args))

\* Mutant: one argument too many is kept.
ReplacerOneMore(uuid, argsCount, text, m) ==
    Join(<<<<Lookup(uuid)>>>> \o Slice0(ReplacerArgs(text, m), argsCount + 1),
         <<Comma>>)

\* function(match, ...args) of replaceAssetPath
Replacer(uuid, argsCount, text, m) ==
    LET staticArgs == Slice0(ReplacerArgs(text, m), argsCount)
    IN  Join(<<<<Lookup(uuid)>>>> \o staticArgs, <<Comma>>)

\* The text with every match replaced by what the replacer returns for it.
RECURSIVE Replaced(_, _, _, _, _)
Replaced(text, pos, ms, uuid, argsCount) ==
    IF ms = <<>> THEN SubSeq(text, pos, Len(text))
    ELSE SubSeq(text, pos, Head(ms).start - 1)
             \o Replacer(uuid, argsCount, text, Head(ms))
             \o Replaced(text, Head(ms).end, Tail(ms), uuid, argsCount)

\* An asset entry of the rewriter: [uuid, path].
replaceAssetPath(precompiled, asset) ==
    LET re == getAssetReplaceRegExp(asset.path)
        argsCount == Len(getArgs(asset.path))
    IN  Replaced(precompiled, 1, Matches(precompiled, 1, re),
                 asset.uuid, argsCount)

RECURSIVE Reduce(_, _)
Reduce(precompiled, assets) ==
    IF assets = <<>> THEN precompiled
    ELSE Reduce(replaceAssetPath(precompiled, Head(assets)), Tail(assets))

replaceAssets(precompiled, assets) ==
    IF Len(assets) = 0 THEN precompiled ELSE Reduce(precompiled, assets)

(***************************************************************************)
(* The precompiled text of a template and the ids of its assets            *)
(***************************************************************************)
RECURSIVE CompileExpr(_)
CompileExpr(e) ==
    IF e.type = "Literal" THEN <<Quote(e.value)>>
    ELSE IF e.type = "Symbol"
    THEN <<Bare("runtime.contextOrFrameLookup(context, frame, "),
           Quote(e.value), Bare(")")>>
    ELSE IF e.type = "Add"
    THEN CompileExpr(e.left) \o <<Plus>> \o CompileExpr(e.right)
    ELSE <<Bare("runtime.memberLookup(l_obj, l_key)")>>

CompileNode(n) ==
    IF n.type = "FunCall"
    THEN <<Bare("output"), PlusAssign, Bare("runtime.callWrap(")>>
             \o CompileExpr(n.name)
             \o <<Bare(", "), Quote(n.name.value), Bare(", context, [")>>
             \o Join([i \in 1..Len(n.args) |-> CompileExpr(n.args[i])],
                     <<Comma>>)
             \o <<Bare("]);")>>
    ELSE IF n.type = "Output"
    THEN <<Bare("output"), PlusAssign, Quote("x.png"), Bare(";")>>
    ELSE <<Bare("env.getTemplate("), Quote(n.template.value), Bare(");")>>

\* The text precompileToLocalVar yields for the template.
Precompile(ns) == Join([i \in 1..Len(ns) |-> CompileNode(ns[i])], <<>>)

\* One generated id for each asset entry.
WithIds(paths) ==
    [i \in 1..Len(paths) |-> [uuid |-> "id" \o ToString(i), path |-> paths[i]]]

\* The calls to replaceAssetPath that replaceAssets makes, in order.
RECURSIVE RewriteTrace(_, _)
RewriteTrace(precompiled, assets) ==
    IF assets = <<>> THEN <<>>
    ELSE LET out == replaceAssetPath(precompiled, Head(assets))
         IN  <<[input |-> precompiled,
                asset |-> Head(assets),
                matches |-> Matches(precompiled, 1,
                                    getAssetReplaceRegExp(Head(assets).path)),
                output |-> out]>>
                 \o RewriteTrace(out, Tail(assets))

(***************************************************************************)
(* Promises and Promise.all                                                *)
(***************************************************************************)
Idle == [state |-> "idle"]
Pending == [state |-> "pending"]
Fulfilled(v) == [state |-> "fulfilled", value |-> v]
Rejected(e) == [state |-> "rejected", error |-> e]

IsRejected(p) == p.state = "rejected"

\* Mutant: the aggregate waits for every promise before it rejects.
PromiseAllWaits(agg, ps) ==
    IF agg.state # "pending" THEN agg
    ELSE IF \E i \in 1..Len(ps) : ps[i].state = "pending" THEN agg
    ELSE IF \E i \in 1..Len(ps) : IsRejected(ps[i])
    THEN Rejected(ps[CHOOSE i \in 1..Len(ps) : IsRejected(ps[i])].error)
    ELSE Fulfilled([i \in 1..Len(ps) |-> ps[i].value])

\* Promise.all after one of its promises settled: agg is the aggregate
\* before, ps the promises now. A pending aggregate rejects with the first
\* rejection and fulfils, with the values in the promises' order, once all
\* are fulfilled; a settled aggregate stays as it is.
PromiseAll(agg, ps) ==
    IF agg.state # "pending" THEN agg
    ELSE IF \E i \in 1..Len(ps) : IsRejected(ps[i])
    THEN Rejected(ps[CHOOSE i \in 1..Len(ps) : IsRejected(ps[i])].error)
    ELSE IF \A i \in 1..Len(ps) : ps[i].state = "fulfilled"
    THEN Fulfilled([i \in 1..Len(ps) |-> ps[i].value])
    ELSE agg

Promises(rs) == [i \in 1..Len(rs) |-> rs[i].promise]

(***************************************************************************)
(* Path resolution: getPossiblePaths, getFirstExistedPath and the          *)
(* resolutions of getDependenciesImports and getAssets                     *)
(***************************************************************************)
searchPaths == <<"d1", "d2">>
assetsPaths == <<"s1", "s2">>

\* path.resolve(searchPath, name)
ResolvePath(dir, name) == dir \o "/" \o name

\* getPossiblePaths: each name with its candidate under every search path.
getPossiblePaths(names, dirs) ==
    [i \in 1..Len(names) |->
        <<names[i], [j \in 1..Len(dirs) |-> ResolvePath(dirs[j], names[i])]>>]

\* getFirstExistedPath: the first candidate that exists, an error when none
\* does.
getFirstExistedPath(paths, existing) ==
    IF \E i \in 1..Len(paths) : paths[i] \in existing
    THEN Fulfilled(paths[CHOOSE i \in 1..Len(paths) :
                             /\ paths[i] \in existing
                             /\ \A j \in 1..(i - 1) : paths[j] \notin existing])
    ELSE Rejected([kind |-> "NotFound", name |-> ""])

\* Mutant: the first check to say "exists" wins.
FirstMatchRace(res, paths, checks) ==
    IF res.state # "pending" THEN res
    ELSE IF \E i \in 1..Len(paths) : checks[i] = "exists"
    THEN Fulfilled(paths[CHOOSE i \in 1..Len(paths) : checks[i] = "exists"])
    ELSE IF \A i \in 1..Len(paths) : checks[i] = "missing"
    THEN Rejected([kind |-> "NotFound", name |-> ""])
    ELSE res

\* getFirstExistedPath while its existence checks settle: res is the promise
\* before, checks the checks now. A candidate is the result once its check
\* says it exists and the check of every earlier candidate says it does not.
FirstMatch(res, paths, checks) ==
    IF res.state # "pending" THEN res
    ELSE IF \E i \in 1..Len(paths) :
                /\ checks[i] = "exists"
                /\ \A j \in 1..(i - 1) : checks[j] = "missing"
    THEN Fulfilled(paths[CHOOSE i \in 1..Len(paths) :
                             /\ checks[i] = "exists"
                             /\ \A j \in 1..(i - 1) : checks[j] = "missing"])
    ELSE IF \A i \in 1..Len(paths) : checks[i] = "missing"
    THEN Rejected([kind |-> "NotFound", name |-> ""])
    ELSE res

NotFoundError(kind, path) == [kind |-> kind, name |-> path]

\* Mutant: the error says "Asset" for a template.
TemplateThenWrongKind(path, found) ==
    IF found.state = "fulfilled" THEN Fulfilled(<<path, found.value>>)
    ELSE Rejected(NotFoundError("Asset", path))

\* The two callbacks getDependenciesImports hangs on getFirstExistedPath.
TemplateThen(path, found) ==
    IF found.state = "fulfilled" THEN Fulfilled(<<path, found.value>>)
    ELSE Rejected(NotFoundError("Template", path))

\* Mutant: a missing asset resolves to no path instead of failing.
AssetThenSwallows(path, found) ==
    IF found.state = "fulfilled" THEN Fulfilled(<<path, found.value>>)
    ELSE Fulfilled(<<path, "">>)

\* The two callbacks getAssets hangs on getFirstExistedPath.
AssetThen(path, found) ==
    IF found.state = "fulfilled" THEN Fulfilled(<<path, found.value>>)
    ELSE Rejected(NotFoundError("Asset", path))

\* The resolutions a call starts: one pending promise per [path, paths].
Resolutions(possiblePaths) ==
    [i \in 1..Len(possiblePaths) |->
        [name |-> possiblePaths[i][1], paths |-> possiblePaths[i][2],
         promise |-> Pending]]

\* getDependenciesImports up to its Promise.all.
getDependenciesImports(ns, dirs) ==
    LET templateDeps == getDependencies(ns)
        possiblePaths == getPossiblePaths(templateDeps, dirs)
    IN  Resolutions(possiblePaths)

\* getAssets up to its Promise.all; extracting the asset paths may throw.
getAssets(ns, searchAssets) ==
    LET found == AssetPaths(ns)
    IN  IF ~found.ok THEN found
        ELSE LET texts == [i \in 1..Len(found.value) |-> Text(found.value[i])]
             IN  Value(Resolutions(getPossiblePaths(texts, searchAssets)))

(***************************************************************************)
(* Usages: getTemplateGlobals and the used extensions and filters          *)
(***************************************************************************)
globals == <<"static", "other", "unused">>
extensionsInstances == <<"ext1">>
filtersInstances == <<"filter1">>

getTemplateGlobals(ns, names) ==
    LET calls == findAll(ns, "FunCall")
    IN  SelectSeq(names, LAMBDA name :
            \E i \in 1..Len(calls) : calls[i].name.value = name)

getUsedExtensions(ns, instances) ==
    LET calls == findAll(ns, "CallExtension")
    IN  SelectSeq(instances, LAMBDA name :
            \E i \in 1..Len(calls) : calls[i].extName = name)

getUsedFilters(ns, instances) ==
    LET calls == findAll(ns, "Filter")
    IN  SelectSeq(instances, LAMBDA filterName :
            \E i \in 1..Len(calls) : calls[i].name.value = filterName)

(***************************************************************************)
(* Idle values of the variables a specification does not use               *)
(***************************************************************************)
AddIdle == addNode = None /\ addResult = None
ExtractIdle == depsOut = None
RwIdle ==
    /\ rwState = "idle"
    /\ rwText = <<>>
    /\ rwAssets = <<>>
    /\ rwLog = <<>>
    /\ rwOut = <<>>
RsIdle == rsPaths = <<>> /\ rsChecks = <<>> /\ rsResult = Idle
RunIdle ==
    /\ pc = "idle"
    /\ ext = Idle
    /\ flt = Idle
    /\ addonsAll = Idle
    /\ parseCount = 0
    /\ parseState = "none"
    /\ pre = Idle
    /\ depRes = <<>>
    /\ depAll = Idle
    /\ join = Idle
    /\ chain = None
    /\ assetRes = <<>>
    /\ assetAll = Idle
    /\ result = Idle

(***************************************************************************)
(* Specification of getAddNodeValue applied to one node                    *)
(***************************************************************************)
AddInit ==
    /\ addNode \in AddNodes
    /\ addResult = None
    /\ nodes = <<>>
    /\ fs = {}
    /\ ExtractIdle
    /\ RwIdle
    /\ RunIdle
    /\ RsIdle

EvalAdd ==
    /\ addResult = None
    /\ addResult' = getAddNodeValue(addNode)
    /\ UNCHANGED <<addNode, nodes, fs, extractVars, rwVars, runVars, rsVars>>

AddNext == EvalAdd

SpecAdd == AddInit /\ [][AddNext]_vars

\* The leaves of a concatenation tree, left to right.
RECURSIVE LeavesOf(_)
LeavesOf(node) ==
    IF node.type = "Add" THEN LeavesOf(node.left) \o LeavesOf(node.right)
    ELSE <<node>>

LeafToken(leaf) ==
    IF leaf.type = "Literal" THEN Quote(leaf.value) ELSE Bare(leaf.value)

\* The leaves' tokens with a Plus between neighbours.
RECURSIVE Interleaved(_)
Interleaved(leaves) ==
    IF Len(leaves) = 1 THEN <<LeafToken(leaves[1])>>
    ELSE <<LeafToken(leaves[1]), Plus>> \o Interleaved(Tail(leaves))

AllSupported(leaves) ==
    \A i \in 1..Len(leaves) : leaves[i].type \in {"Literal", "Symbol"}

\* C9: for a concatenation tree whose leaves are all literals or symbols,
\* getAddNodeValue returns the leaves in left-to-right order joined by " + ",
\* literals double-quoted and symbols bare; when some operand is neither a
\* concatenation, a literal nor a symbol it throws a TypeError and returns no
\* value.
C9_AddNodeValue ==
    addResult # None =>
        LET leaves == LeavesOf(addNode)
        IN  IF AllSupported(leaves)
            THEN addResult = Value(Interleaved(leaves))
            ELSE addResult = Thrown("TypeError")

\* static("img/" + name + ".png") evaluates to the text "img/" + name + ".png".
C9_Witness ==
    /\ addNode = Add(Add(Literal("img/"), Symbol("name")), Literal(".png"))
    /\ addResult # None
    /\ addResult.ok
    /\ Text(addResult.value) = "\"img/\" + name + \".png\""

(***************************************************************************)
(* Specification of getDependencies applied to one template                *)
(***************************************************************************)
MaxDirectives == 3

DirectiveNodes ==
    {Directive(k, n) : k \in DirectiveKinds, n \in TemplateNames}
        \cup {OtherNode}

RECURSIVE SeqsUpTo(_, _)
SeqsUpTo(S, n) ==
    IF n = 0 THEN {<<>>}
    ELSE LET shorter == SeqsUpTo(S, n - 1)
         IN  shorter \cup {Append(s, x) : s \in shorter, x \in S}

ExtractInit ==
    /\ nodes \in SeqsUpTo(DirectiveNodes, MaxDirectives)
    /\ depsOut = None
    /\ fs = {}
    /\ AddIdle
    /\ RwIdle
    /\ RunIdle
    /\ RsIdle

Extract ==
    /\ depsOut = None
    /\ depsOut' = Value(getDependencies(nodes))
    /\ UNCHANGED <<addVars, nodes, fs, rwVars, runVars, rsVars>>

ExtractNext == Extract

SpecExtract == ExtractInit /\ [][ExtractNext]_vars

IsDirective(n) == n.type \in DirectiveKinds

\* The directive occurrences of the document, in document order.
DocumentOrder(ns) == TemplateValues(SelectSeq(ns, IsDirective))

KindRank(kind) ==
    CASE kind = "Extends" -> 1
      [] kind = "Include" -> 2
      [] kind = "Import" -> 3
      [] kind = "FromImport" -> 4

\* Insert a directive after every directive of the same or a lower rank.
RECURSIVE InsertByKind(_, _)
InsertByKind(sorted, n) ==
    IF sorted = <<>> THEN <<n>>
    ELSE IF KindRank(Head(sorted).type) <= KindRank(n.type)
         THEN <<Head(sorted)>> \o InsertByKind(Tail(sorted), n)
         ELSE <<n>> \o sorted

RECURSIVE StableByKind(_)
StableByKind(ns) ==
    IF ns = <<>> THEN <<>>
    ELSE InsertByKind(StableByKind(SubSeq(ns, 1, Len(ns) - 1)), ns[Len(ns)])

\* C7 as stated: the extracted names are those of every extends, include,
\* import and from-import occurrence in the order the directives appear in
\* the document, duplicates preserved.
C7_DocumentOrder ==
    depsOut # None => depsOut.value = DocumentOrder(nodes)

\* C7 as amended: the extracted names are those of every directive
\* occurrence, duplicates preserved, grouped by directive kind (extends, then
\* include, then import, then from-import) and in document order within one
\* kind.
C7_GroupedByKind ==
    depsOut # None =>
        depsOut.value = TemplateValues(StableByKind(SelectSeq(nodes, IsDirective)))

\* An include written before an extends is reported after it.
C7_Witness ==
    /\ nodes = <<Directive("Include", "a"), Directive("Extends", "b"),
                 Directive("Include", "a")>>
    /\ depsOut = Value(<<"b", "a", "a">>)

(***************************************************************************)
(* Specification of the asset rewrite of one template: the asset paths of  *)
(* the template get their ids and replaceAssets rewrites the precompiled   *)
(* text                                                                    *)
(***************************************************************************)
MaxCalls == 2

StaticArgs ==
    {<<Literal("x.png")>>, <<Literal("y.png")>>, <<Symbol("name")>>,
     <<Add(Literal("img/"), Symbol("name"))>>,
     <<Add(Symbol("dir"), Literal("/x.png"))>>,
     <<Add(Add(Literal("img/"), Symbol("name")), Literal(".png"))>>,
     <<Add(Add(Symbol("dir"), Literal("/")), Symbol("name"))>>,
     <<Add(Literal("img/"), OtherExpr)>>}

CallNodes ==
    {FunCall("static", args) : args \in StaticArgs}
        \cup {FunCall("other", <<Literal("x.png")>>),
              FunCall("other", <<Add(Literal("img/"), Symbol("name"))>>),
              OtherNode}

RwInit ==
    /\ nodes \in SeqsUpTo(CallNodes, MaxCalls)
    /\ rwState = "start"
    /\ rwText = Precompile(nodes)
    /\ rwAssets = <<>>
    /\ rwLog = <<>>
    /\ rwOut = <<>>
    /\ fs = {}
    /\ AddIdle
    /\ ExtractIdle
    /\ RunIdle
    /\ RsIdle

Rewrite ==
    /\ rwState = "start"
    /\ LET paths == AssetPaths(nodes)
       IN  IF ~paths.ok
           THEN /\ rwState' = "thrown"
                /\ UNCHANGED <<rwAssets, rwLog, rwOut>>
           ELSE LET assets == WithIds(paths.value)
                IN  /\ rwState' = "done"
                    /\ rwAssets' = assets
                    /\ rwLog' = RewriteTrace(rwText, assets)
                    /\ rwOut' = replaceAssets(rwText, assets)
    /\ UNCHANGED <<addVars, nodes, fs, extractVars, rwText, runVars, rsVars>>

RwNext == Rewrite

SpecRewrite == RwInit /\ [][RwNext]_vars

\* The variable fragments of a path: the bare operands of a concatenation.
VariableCount(path) ==
    IF \E i \in 1..Len(path) : path[i].t = "plus"
    THEN Cardinality({i \in 1..Len(path) : path[i].t = "bare"})
    ELSE 0

\* The lookup followed by the first n captures, a comma before each.
RECURSIVE LookupWith(_, _, _)
LookupWith(uuid, caps, n) ==
    IF n = 0 THEN <<Lookup(uuid)>>
    ELSE LookupWith(uuid, caps, n - 1) \o <<Comma>> \o caps[n]

\* The text from position pos on, the matches that start at or after pos
\* replaced by the lookup and their n captures.
RECURSIVE Spliced(_, _, _, _, _)
Spliced(text, pos, ms, uuid, n) ==
    IF pos > Len(text) THEN <<>>
    ELSE IF \E k \in 1..Len(ms) : ms[k].start = pos
    THEN LET m == ms[CHOOSE k \in 1..Len(ms) : ms[k].start = pos]
         IN  LookupWith(uuid, m.caps, n) \o Spliced(text, m.end, ms, uuid, n)
    ELSE <<text[pos]>> \o Spliced(text, pos + 1, ms, uuid, n)

\* C8: every match of an asset's pattern is replaced by the lookup keyed by
\* the entry's id followed by exactly the captured arguments, one for each
\* variable fragment of the path and in their order; the offset and the whole
\* input the replacer also gets are dropped. For a static path the
\* replacement is the lookup alone.
C8_Replacement ==
    \A i \in 1..Len(rwLog) :
        LET step == rwLog[i]
            n == VariableCount(step.asset.path)
        IN  /\ \A k \in 1..Len(step.matches) : Len(step.matches[k].caps) = n
            /\ step.output =
                   Spliced(step.input, 1, step.matches, step.asset.uuid, n)

\* static("img/" + name + ".png") is rewritten to the lookup and the one
\* captured argument.
C8_Witness ==
    /\ rwState = "done"
    /\ \E i \in 1..Len(rwLog) :
           /\ rwLog[i].asset.path =
                  <<Quote("img/"), Plus, Bare("name"), Plus, Quote(".png")>>
           /\ Len(rwLog[i].matches) = 1
           /\ \E p \in 1..(Len(rwLog[i].output) - 4) :
                  SubSeq(rwLog[i].output, p, p + 4) =
                      <<Lookup(rwLog[i].asset.uuid), Comma,
                        Bare("runtime.contextOrFrameLookup(context, frame, "),
                        Quote("name"), Bare(")")>>

(***************************************************************************)
(* Specification of one call of withDependencies                           *)
(***************************************************************************)
MaxNodes == 2

RunNodes ==
    {Directive("Include", "a"), Directive("Import", "b"),
     FunCall("static", <<Literal("x.png")>>),
     FunCall("static", <<Add(Literal("img/"), OtherExpr)>>),
     FunCall("other", <<Literal("y.png")>>)}

AssetNames == {"x.png"}

\* The files that may exist on disk: template "a" under any search
\* directory, template "b" under the first one only, and the asset under any
\* assets directory.
Candidates ==
    {ResolvePath(searchPaths[i], "a") : i \in 1..Len(searchPaths)}
        \cup {ResolvePath(searchPaths[1], "b")}
        \cup {ResolvePath(assetsPaths[i], n) : i \in 1..Len(assetsPaths),
                                               n \in AssetNames}

otherVars == <<addVars, extractVars, rwVars, rsVars>>

Init ==
    /\ nodes \in SeqsUpTo(RunNodes, MaxNodes)
    /\ fs \in SUBSET Candidates
    /\ pc = "start"
    /\ ext = Idle
    /\ flt = Idle
    /\ addonsAll = Idle
    /\ parseCount = 0
    /\ parseState = "none"
    /\ pre = Idle
    /\ depRes = <<>>
    /\ depAll = Idle
    /\ join = Idle
    /\ chain = None
    /\ assetRes = <<>>
    /\ assetAll = Idle
    /\ result = Pending
    /\ AddIdle
    /\ ExtractIdle
    /\ RwIdle
    /\ RsIdle

\* Mutant: the addon promises are not awaited before parsing.
StartNoAwait ==
    /\ pc = "start"
    /\ ext' = Pending
    /\ flt' = Pending
    /\ addonsAll' = Pending
    /\ pc' = "parse"
    /\ UNCHANGED <<nodes, fs, parseCount, parseState, pre, depRes, depAll,
                   join, chain, assetRes, assetAll, result, otherVars>>

\* The call, up to `await Promise.all([getAddonsMeta(...), ...])`.
Start ==
    /\ pc = "start"
    /\ ext' = Pending
    /\ flt' = Pending
    /\ addonsAll' = Pending
    /\ pc' = "await_addons"
    /\ UNCHANGED <<nodes, fs, parseCount, parseState, pre, depRes, depAll,
                   join, chain, assetRes, assetAll, result, otherVars>>

\* What the awaiting call does once the addon promises are as given.
AfterAddon(extNow, fltNow) ==
    LET all == PromiseAll(addonsAll, <<extNow, fltNow>>)
    IN  /\ addonsAll' = all
        /\ IF pc = "await_addons" /\ all.state = "fulfilled"
           THEN pc' = "parse" /\ UNCHANGED result
           ELSE IF pc = "await_addons" /\ all.state = "rejected"
           THEN pc' = "done" /\ result' = Rejected(all.error)
           ELSE UNCHANGED <<pc, result>>

\* getAddonsMeta(extensions) settles.
SettleExtensions ==
    /\ ext.state = "pending"
    /\ \E ok \in BOOLEAN :
           LET now == IF ok THEN Fulfilled(extensionsInstances)
                      ELSE Rejected([kind |-> "AddonLoad", name |-> "ext1"])
           IN  ext' = now /\ AfterAddon(now, flt)
    /\ UNCHANGED <<nodes, fs, flt, parseCount, parseState, pre, depRes,
                   depAll, join, chain, assetRes, assetAll, otherVars>>

\* getAddonsMeta(filters) settles.
SettleFilters ==
    /\ flt.state = "pending"
    /\ \E ok \in BOOLEAN :
           LET now == IF ok THEN Fulfilled(filtersInstances)
                      ELSE Rejected([kind |-> "AddonLoad", name |-> "filter1"])
           IN  flt' = now /\ AfterAddon(ext, now)
    /\ UNCHANGED <<nodes, fs, ext, parseCount, parseState, pre, depRes,
                   depAll, join, chain, assetRes, assetAll, otherVars>>

\* getNodes(source, extensions, opts): the template parses or does not.
Parse ==
    /\ pc = "parse"
    /\ parseCount' = parseCount + 1
    /\ \E ok \in BOOLEAN :
           IF ok
           THEN parseState' = "ok" /\ pc' = "fanout" /\ UNCHANGED result
           ELSE /\ parseState' = "error"
                /\ pc' = "done"
                /\ result' = Rejected([kind |-> "Parse", name |-> ""])
    /\ UNCHANGED <<nodes, fs, ext, flt, addonsAll, pre, depRes, depAll, join,
                   chain, assetRes, assetAll, otherVars>>

\* Promise.all([precompileToLocalVar(...), getDependenciesImports(...)])
Fanout ==
    /\ pc = "fanout"
    /\ pre' = Pending
    /\ depRes' = getDependenciesImports(nodes, searchPaths)
    /\ depAll' = PromiseAll(Pending, Promises(depRes'))
    /\ join' = PromiseAll(Pending, <<pre', depAll'>>)
    /\ pc' = "await_join"
    /\ UNCHANGED <<nodes, fs, ext, flt, addonsAll, parseCount, parseState,
                   chain, assetRes, assetAll, result, otherVars>>

\* What the then chain does once pre and depAll are as given.
AfterJoin(preNow, depAllNow) ==
    LET all == PromiseAll(join, <<preNow, depAllNow>>)
    IN  /\ join' = all
        /\ IF pc = "await_join" /\ all.state = "fulfilled"
           THEN pc' = "globals" /\ UNCHANGED result
           ELSE IF pc = "await_join" /\ all.state = "rejected"
           THEN pc' = "done" /\ result' = Rejected(all.error)
           ELSE UNCHANGED <<pc, result>>

\* precompileToLocalVar settles.
SettlePrecompile ==
    /\ pre.state = "pending"
    /\ \E ok \in BOOLEAN :
           LET now == IF ok THEN Fulfilled(Precompile(nodes))
                      ELSE Rejected([kind |-> "Compile", name |-> ""])
           IN  pre' = now /\ AfterJoin(now, depAll)
    /\ UNCHANGED <<nodes, fs, ext, flt, addonsAll, parseCount, parseState,
                   depRes, depAll, chain, assetRes, assetAll, otherVars>>

\* getFirstExistedPath of one template name settles.
SettleTemplate(i) ==
    /\ depRes[i].promise.state = "pending"
    /\ LET found == getFirstExistedPath(depRes[i].paths, fs)
           now == TemplateThen(depRes[i].name, found)
           res == [depRes EXCEPT ![i].promise = now]
           all == PromiseAll(depAll, Promises(res))
       IN  depRes' = res /\ depAll' = all /\ AfterJoin(pre, all)
    /\ UNCHANGED <<nodes, fs, ext, flt, addonsAll, parseCount, parseState,
                   pre, chain, assetRes, assetAll, otherVars>>

\* The first then of the chain: precompiled, dependencies and globals.
ExtractGlobals ==
    /\ pc = "globals"
    /\ chain' = [precompiled |-> join.value[1],
                 dependencies |-> join.value[2],
                 globals |-> getTemplateGlobals(nodes, globals)]
    /\ pc' = "usage"
    /\ UNCHANGED <<nodes, fs, ext, flt, addonsAll, parseCount, parseState,
                   pre, depRes, depAll, join, assetRes, assetAll, result,
                   otherVars>>

\* The second then of the chain: the used extensions and filters.
ExtractUsage ==
    /\ pc = "usage"
    /\ chain' = [precompiled |-> chain.precompiled,
                 dependencies |-> chain.dependencies,
                 globals |-> chain.globals,
                 extensions |-> getUsedExtensions(nodes, ext.value),
                 filters |-> getUsedFilters(nodes, flt.value)]
    /\ pc' = "assets"
    /\ UNCHANGED <<nodes, fs, ext, flt, addonsAll, parseCount, parseState,
                   pre, depRes, depAll, join, assetRes, assetAll, result,
                   otherVars>>

\* The manifest the last then returns.
Manifest(deps, assetPairs) ==
    [precompiled |-> deps.precompiled,
     dependencies |-> deps.dependencies,
     globals |-> deps.globals,
     extensions |-> deps.extensions,
     filters |-> deps.filters,
     assets |-> assetPairs]

\* What the last then does once the asset promises are as given.
AfterAssets(all) ==
    /\ assetAll' = all
    /\ IF pc \in {"assets", "await_assets"} /\ all.state = "fulfilled"
       THEN pc' = "done" /\ result' = Fulfilled(Manifest(chain, all.value))
       ELSE IF pc \in {"assets", "await_assets"} /\ all.state = "rejected"
       THEN pc' = "done" /\ result' = Rejected(all.error)
       ELSE IF pc = "assets"
       THEN pc' = "await_assets" /\ UNCHANGED result
       ELSE UNCHANGED <<pc, result>>

\* The third then of the chain: getAssets(nodes, assetsPaths).
StartAssets ==
    /\ pc = "assets"
    /\ LET started == getAssets(nodes, assetsPaths)
       IN  IF ~started.ok
           THEN /\ pc' = "done"
                /\ result' = Rejected([kind |-> started.error, name |-> ""])
                /\ UNCHANGED <<assetRes, assetAll>>
           ELSE /\ assetRes' = started.value
                /\ AfterAssets(PromiseAll(Pending, Promises(started.value)))
    /\ UNCHANGED <<nodes, fs, ext, flt, addonsAll, parseCount, parseState,
                   pre, depRes, depAll, join, chain, otherVars>>

\* getFirstExistedPath of one asset path settles.
SettleAsset(i) ==
    /\ assetRes[i].promise.state = "pending"
    /\ LET found == getFirstExistedPath(assetRes[i].paths, fs)
           now == AssetThen(assetRes[i].name, found)
           res == [assetRes EXCEPT ![i].promise = now]
       IN  /\ assetRes' = res
           /\ AfterAssets(PromiseAll(assetAll, Promises(res)))
    /\ UNCHANGED <<nodes, fs, ext, flt, addonsAll, parseCount, parseState,
                   pre, depRes, depAll, join, chain, otherVars>>

Next ==
    \/ Start
    \/ SettleExtensions
    \/ SettleFilters
    \/ Parse
    \/ Fanout
    \/ SettlePrecompile
    \/ \E i \in 1..Len(depRes) : SettleTemplate(i)
    \/ ExtractGlobals
    \/ ExtractUsage
    \/ StartAssets
    \/ \E i \in 1..Len(assetRes) : SettleAsset(i)

Spec == Init /\ [][Next]_vars

HasField(r, f) == f \in DOMAIN r

\* No candidate of the list exists.
Missing(paths) == \A j \in 1..Len(paths) : paths[j] \notin fs

Settled(p) == p.state \in {"fulfilled", "rejected"}

\* A step of the call failed.
StepFailed ==
    \/ IsRejected(ext)
    \/ IsRejected(flt)
    \/ parseState = "error"
    \/ IsRejected(pre)
    \/ \E i \in 1..Len(depRes) :
           Settled(depRes[i].promise) /\ Missing(depRes[i].paths)
    \/ \E i \in 1..Len(assetRes) :
           Settled(assetRes[i].promise) /\ Missing(assetRes[i].paths)

ExistsUnder(dirs, name) ==
    \E k \in 1..Len(dirs) : ResolvePath(dirs[k], name) \in fs

StaticLiterals(ns) ==
    {ns[k].args[1].value : k \in {k \in 1..Len(ns) :
        /\ ns[k].type = "FunCall"
        /\ ns[k].name.value = "static"
        /\ ns[k].args[1].type = "Literal"}}

\* C1: withDependencies is all-or-nothing: once addon loading, parsing,
\* precompilation, a template path resolution or an asset path resolution
\* has failed the returned promise is rejected and holds no manifest; a
\* manifest is delivered only when every step succeeded, and it is complete.
C1_AllOrNothing ==
    /\ StepFailed => IsRejected(result) /\ ~HasField(result, "value")
    /\ result.state = "fulfilled" =>
           /\ ext.state = "fulfilled" /\ flt.state = "fulfilled"
           /\ parseState = "ok"
           /\ pre.state = "fulfilled"
           /\ \A k \in 1..Len(nodes) :
                  IsDirective(nodes[k]) =>
                      ExistsUnder(searchPaths, nodes[k].template.value)
           /\ \A v \in StaticLiterals(nodes) : ExistsUnder(assetsPaths, v)
           /\ DOMAIN result.value =
                  {"precompiled", "dependencies", "globals", "extensions",
                   "filters", "assets"}
           /\ Len(result.value.dependencies) =
                  Len(SelectSeq(nodes, IsDirective))
           /\ Len(result.value.assets) = Cardinality(StaticLiterals(nodes))

\* Everything but one asset succeeded: the partial manifest of the chain is
\* not delivered.
C1_Witness ==
    /\ pc = "done"
    /\ IsRejected(result)
    /\ result.error.kind = "Asset"
    /\ chain # None
    /\ Len(chain.dependencies) = 1

\* C2: the phases of a call come in order: both addon promises are fulfilled
\* before the template is parsed; it is parsed once; precompilation and
\* template resolution start together and only after parsing; the usages are
\* extracted only after both completed; asset resolution starts only after
\* the usages were extracted, so never when precompilation or a template
\* resolution failed.
C2_PhaseOrder ==
    /\ parseCount > 0 => ext.state = "fulfilled" /\ flt.state = "fulfilled"
    /\ parseCount <= 1
    /\ (pre.state = "idle") = (depAll.state = "idle")
    /\ pre.state # "idle" => parseState = "ok" /\ parseCount = 1
    /\ chain # None =>
           /\ pre.state = "fulfilled"
           /\ depAll.state = "fulfilled"
           /\ HasField(chain, "globals")
    /\ (assetAll.state # "idle" \/ pc = "await_assets") =>
           /\ chain # None
           /\ HasField(chain, "extensions")
           /\ HasField(chain, "filters")
           /\ pre.state = "fulfilled"
           /\ depAll.state = "fulfilled"
    /\ (IsRejected(pre) \/ IsRejected(depAll)) =>
           assetAll.state = "idle" /\ assetRes = <<>>

\* Asset resolution is under way after a template resolution and the
\* precompilation ran side by side and the template was parsed once.
C2_Witness ==
    /\ assetAll.state = "pending"
    /\ parseCount = 1
    /\ Len(depRes) = 1
    /\ pre.state = "fulfilled"

\* The candidate of a name under the first search path that holds it.
FirstUnder(dirs, name) ==
    ResolvePath(dirs[CHOOSE k \in 1..Len(dirs) :
                        /\ ResolvePath(dirs[k], name) \in fs
                        /\ \A j \in 1..(k - 1) :
                               ResolvePath(dirs[j], name) \notin fs],
                name)

\* The names of the directive occurrences, as the resolutions hold them.
ReferenceNames == [i \in 1..Len(depRes) |-> depRes[i].name]

\* C4 as stated: every extracted name yields the pair (name, candidate under
\* the first search path that holds it), and for every name that no search
\* path holds the resolution fails with an error that names that reference
\* as a Template (an asset path: as an Asset).
C4_EveryMissingNamed ==
    /\ depAll.state = "fulfilled" =>
           \A i \in 1..Len(depRes) :
               depAll.value[i] =
                   <<depRes[i].name, FirstUnder(searchPaths, depRes[i].name)>>
    /\ \A i \in 1..Len(depRes) :
           (Settled(depRes[i].promise)
                /\ ~ExistsUnder(searchPaths, depRes[i].name)) =>
               depAll = Rejected(NotFoundError("Template", depRes[i].name))
    /\ \A i \in 1..Len(assetRes) :
           (Settled(assetRes[i].promise)
                /\ ~ExistsUnder(assetsPaths, assetRes[i].name)) =>
               assetAll = Rejected(NotFoundError("Asset", assetRes[i].name))

\* C4 as amended: every extracted name yields the pair (name, candidate under
\* the first search path that holds it); when some name is held by no search
\* path the resolution fails, and its error names one of the references that
\* no search path holds, as a Template (an asset path: as an Asset).
C4_SomeMissingNamed ==
    /\ ReferenceNames \in {<<>>, getDependencies(nodes)}
    /\ depAll.state = "fulfilled" =>
           /\ Len(depAll.value) = Len(depRes)
           /\ \A i \in 1..Len(depRes) :
                  depAll.value[i] =
                      <<depRes[i].name,
                        FirstUnder(searchPaths, depRes[i].name)>>
    /\ (\E i \in 1..Len(depRes) :
            Settled(depRes[i].promise)
                /\ ~ExistsUnder(searchPaths, depRes[i].name)) =>
           IsRejected(depAll)
    /\ IsRejected(depAll) =>
           /\ depAll.error.kind = "Template"
           /\ \E i \in 1..Len(depRes) :
                  /\ depAll.error.name = depRes[i].name
                  /\ ~ExistsUnder(searchPaths, depRes[i].name)
    /\ assetAll.state = "fulfilled" =>
           \A i \in 1..Len(assetRes) :
               assetAll.value[i] =
                   <<assetRes[i].name,
                     FirstUnder(assetsPaths, assetRes[i].name)>>
    /\ (\E i \in 1..Len(assetRes) :
            Settled(assetRes[i].promise)
                /\ ~ExistsUnder(assetsPaths, assetRes[i].name)) =>
           IsRejected(assetAll)
    /\ IsRejected(assetAll) =>
           /\ assetAll.error.kind = "Asset"
           /\ \E i \in 1..Len(assetRes) :
                  /\ assetAll.error.name = assetRes[i].name
                  /\ ~ExistsUnder(assetsPaths, assetRes[i].name)

\* `a` is held by d2 only and resolves to (a, d2/a).
C4_Witness ==
    /\ "d1/a" \notin fs
    /\ "d2/a" \in fs
    /\ depAll.state = "fulfilled"
    /\ \E i \in 1..Len(depAll.value) : depAll.value[i] = <<"a", "d2/a">>

IsStaticCallOf(n, text) ==
    /\ n.type = "FunCall"
    /\ n.name.value = "static"
    /\ n.args # <<>>
    /\ n.args[1] = Literal(text)

FromStaticCall(text) ==
    \E k \in 1..Len(nodes) : IsStaticCallOf(nodes[k], text)

\* C6: only calls of `static` give asset references: every path getAssets
\* resolves, every entry of the manifest's asset list and every "Asset not
\* found" error comes from a call whose callee is `static`; a call of another
\* function adds no entry.
C6_OnlyStatic ==
    /\ \A i \in 1..Len(assetRes) : FromStaticCall(assetRes[i].name)
    /\ result.state = "fulfilled" =>
           \A i \in 1..Len(result.value.assets) :
               FromStaticCall(result.value.assets[i][1])
    /\ (IsRejected(result) /\ result.error.kind = "Asset") =>
           FromStaticCall(result.error.name)
    /\ (pc \in {"await_assets", "done"} /\ chain # None
            /\ HasField(chain, "filters")
            /\ \A k \in 1..Len(nodes) :
                   ~(nodes[k].type = "FunCall"
                         /\ nodes[k].name.value = "static")) =>
           assetRes = <<>> /\ result.state = "fulfilled"

\* A template that calls other("y.png") only: y.png exists nowhere, and the
\* manifest is delivered with no asset.
C6_Witness ==
    /\ nodes = <<FunCall("other", <<Literal("y.png")>>)>>
    /\ result.state = "fulfilled"
    /\ result.value.assets = <<>>
    /\ result.value.globals = <<"other">>

\* C10, the state part: an aggregate is rejected as soon as one of its
\* promises is, whatever its siblings are, and a pending sibling can still
\* settle.
C10_Immediate ==
    /\ (IsRejected(ext) \/ IsRejected(flt)) => IsRejected(addonsAll)
    /\ (\E i \in 1..Len(depRes) : IsRejected(depRes[i].promise)) =>
           IsRejected(depAll)
    /\ (IsRejected(pre) \/ IsRejected(depAll)) => IsRejected(join)
    /\ (\E i \in 1..Len(assetRes) : IsRejected(assetRes[i].promise)) =>
           IsRejected(assetAll)
    /\ (IsRejected(addonsAll) \/ IsRejected(join) \/ IsRejected(assetAll)) =>
           IsRejected(result)
    /\ \A i \in 1..Len(depRes) :
           depRes[i].promise.state = "pending" => ENABLED SettleTemplate(i)
    /\ pre.state = "pending" => ENABLED SettlePrecompile
    /\ flt.state = "pending" => ENABLED SettleFilters

\* A rejected aggregate stays as it is.
C10_Final ==
    /\ IsRejected(addonsAll) => addonsAll' = addonsAll
    /\ IsRejected(depAll) => depAll' = depAll
    /\ IsRejected(join) => join' = join
    /\ IsRejected(assetAll) => assetAll' = assetAll
    /\ IsRejected(result) => result' = result

\* C10: fail-fast aggregation: when one of several concurrent resolutions
\* (or precompilation and template resolution) fails the aggregate fails at
\* that moment without waiting for the pending siblings; the siblings are not
\* cancelled and their later outcomes leave the failed result as it is.
C10_FailFast == []C10_Immediate /\ [][C10_Final]_vars

\* The aggregate of the template resolutions is rejected while a sibling is
\* still pending.
C10_Witness ==
    /\ IsRejected(depAll)
    /\ IsRejected(result)
    /\ pre.state = "fulfilled"
    /\ \E i \in 1..Len(depRes) : depRes[i].promise.state = "pending"

(***************************************************************************)
(* Specification of getFirstExistedPath for one reference: the existence   *)
(* checks of its candidates settle in any order                            *)
(***************************************************************************)
MaxCandidates == 3

CandidatePaths == {"d1/a", "d2/a", "d3/a"}

RsInit ==
    /\ rsPaths \in SeqsUpTo(CandidatePaths, MaxCandidates)
    /\ fs \in SUBSET CandidatePaths
    /\ rsChecks = <<>>
    /\ rsResult = Idle
    /\ nodes = <<>>
    /\ AddIdle
    /\ ExtractIdle
    /\ RwIdle
    /\ RunIdle

\* getFirstExistedPath(paths) is called.
StartChecks ==
    /\ rsResult = Idle
    /\ rsChecks' = [i \in 1..Len(rsPaths) |-> "pending"]
    /\ rsResult' = FirstMatch(Pending, rsPaths, rsChecks')
    /\ UNCHANGED <<rsPaths, fs, nodes, addVars, extractVars, rwVars, runVars>>

\* The existence check of candidate i settles.
CheckSettles(i) ==
    /\ rsChecks[i] = "pending"
    /\ rsChecks' = [rsChecks EXCEPT
                       ![i] = IF rsPaths[i] \in fs THEN "exists" ELSE "missing"]
    /\ rsResult' = FirstMatch(rsResult, rsPaths, rsChecks')
    /\ UNCHANGED <<rsPaths, fs, nodes, addVars, extractVars, rwVars, runVars>>

RsNext ==
    \/ StartChecks
    \/ \E i \in 1..Len(rsChecks) : CheckSettles(i)

SpecResolver == RsInit /\ [][RsNext]_vars

\* C3: the resolver's result is the earliest candidate, in list order, that
\* exists, whatever the order in which the existence checks settle: never a
\* later candidate when an earlier one exists, and a failure only when no
\* candidate exists.
C3_EarliestExisting ==
    /\ rsResult.state = "fulfilled" =>
           \E i \in 1..Len(rsPaths) :
               /\ rsResult.value = rsPaths[i]
               /\ rsPaths[i] \in fs
               /\ \A j \in 1..(i - 1) : rsPaths[j] \notin fs
    /\ IsRejected(rsResult) => \A i \in 1..Len(rsPaths) : rsPaths[i] \notin fs
    /\ (rsResult.state = "pending" /\ rsChecks # <<>>) =>
           \E i \in 1..Len(rsPaths) : rsChecks[i] = "pending"
    /\ Settled(rsResult) => rsResult = getFirstExistedPath(rsPaths, fs)

\* The check of a later, existing candidate settled first and the resolver
\* still waits for the earlier candidate, which exists too.
C3_Witness ==
    /\ Len(rsPaths) = 2
    /\ rsPaths[1] # rsPaths[2]
    /\ rsPaths[1] \in fs
    /\ rsChecks = <<"pending", "exists">>
    /\ rsResult = Pending

\* The asset paths the rewrite knows are exactly the distinct static paths.
RECURSIVE CountOf(_, _)
CountOf(seq, x) ==
    IF seq = <<>> THEN 0
    ELSE (IF Head(seq) = x THEN 1 ELSE 0) + CountOf(Tail(seq), x)

IsStaticPath(path) == \A i \in 1..Len(path) : path[i].t # "plus"

\* C5: the asset list holds one entry and one id for each distinct asset path
\* text, however often a static call repeats the path, and the rewrite
\* replaces every occurrence of the quoted path by the lookup keyed by that
\* one id.
C5_Dedup ==
    rwState = "done" =>
        /\ \A i, j \in 1..Len(rwAssets) :
               (rwAssets[i].path = rwAssets[j].path
                    \/ rwAssets[i].uuid = rwAssets[j].uuid) => i = j
        /\ \A v \in StaticLiterals(nodes) :
               Cardinality({i \in 1..Len(rwAssets) :
                                rwAssets[i].path = <<Bare(v)>>}) = 1
        /\ Len(rwLog) = Len(rwAssets)
        /\ \A i \in 1..Len(rwLog) :
               IsStaticPath(rwLog[i].asset.path) =>
                   LET quoted == Quote(rwLog[i].asset.path[1].v)
                       input == rwLog[i].input
                   IN  rwLog[i].output =
                           [p \in 1..Len(input) |->
                               IF input[p] = quoted
                               THEN Lookup(rwLog[i].asset.uuid)
                               ELSE input[p]]
        /\ \A i \in 1..Len(rwAssets) :
               IsStaticPath(rwAssets[i].path) =>
                   CountOf(rwOut, Quote(rwAssets[i].path[1].v)) = 0

\* Two static calls of the same path: one entry, one id, both call sites
\* rewritten to the same lookup.
C5_Witness ==
    /\ nodes = <<FunCall("static", <<Literal("x.png")>>),
                 FunCall("static", <<Literal("x.png")>>)>>
    /\ rwState = "done"
    /\ rwAssets = <<[uuid |-> "id1", path |-> <<Bare("x.png")>>]>>
    /\ CountOf(rwText, Quote("x.png")) = 2
    /\ CountOf(rwOut, Lookup("id1")) = 2

====
